---- MODULE Spec2Model ----
(***************************************************************************)
(* Model of the beads_viewer rendering layer:                              *)
(*   - GraphModel (graph view): rebuildGraph, navigation, View             *)
(*   - smartTruncateID                                                     *)
(*   - IssueDelegate.Render (row renderer)                                 *)
(* Go strings are sequences of bytes (naturals 0..255); Go slices are      *)
(* sequences, Go index i is TLA+ index i+1; Go maps are functions whose    *)
(* DOMAIN is the set of keys present.                                      *)
(***************************************************************************)
EXTENDS Integers, Sequences, FiniteSets, TLC

VARIABLES
    issues,        \* GraphModel.issues: sequence of [ID, Dependencies]
    insights,      \* GraphModel.insights: NilInsights or InsightsOf(stats)
    selectedIdx,   \* GraphModel.selectedIdx (0-based)
    scrollOffset,  \* GraphModel.scrollOffset (0-based)
    width,         \* GraphModel.width
    height,        \* GraphModel.height
    issueMap,      \* GraphModel.issueMap: ID -> index of the issue pointed to
    blockers,      \* GraphModel.blockers: ID -> sequence of IDs
    dependents,    \* GraphModel.dependents: ID -> sequence of IDs
    sortedIDs,     \* GraphModel.sortedIDs
    lastCall,      \* the method of GraphModel called last, with the index it found
    viewResult,    \* what the last View call returned (or that it panicked)
    truncId,       \* smartTruncateID: argument id
    truncMaxLen,   \* smartTruncateID: argument maxLen
    truncOut,      \* smartTruncateID: [called, value]: the string returned
    rowTier,       \* IssueDelegate.Tier
    rowWidth,      \* list.Model.Width()
    rowItem,       \* the IssueItem rendered
    rowOut         \* what Render wrote to the sink, per tier rendered so far

graphVars == <<issues, insights, selectedIdx, scrollOffset, width, height,
               issueMap, blockers, dependents, sortedIDs, lastCall, viewResult>>
truncVars == <<truncId, truncMaxLen, truncOut>>
rowVars == <<rowTier, rowWidth, rowItem, rowOut>>
vars == <<graphVars, truncVars, rowVars>>

Min(a, b) == IF a < b THEN a ELSE b
Max(a, b) == IF a > b THEN a ELSE b

(***************************************************************************)
(* Strings as byte sequences                                               *)
(***************************************************************************)
Underscore == 95
\* U+2026 HORIZONTAL ELLIPSIS in UTF-8
Ellipsis == <<226, 128, 166>>
\* U+00E9 in UTF-8, a two-byte character
EAcute == <<195, 169>>
\* U+FFFD, what a byte that is no valid UTF-8 decodes to
RuneError == <<239, 191, 189>>

IsCont(b) == b >= 128 /\ b <= 191

\* utf8.DecodeRuneInString: the number of bytes the first rune of s takes
\* (1 for ASCII and for a byte that starts no valid encoding).
RuneWidth(s) ==
    IF s[1] >= 194 /\ s[1] <= 223 /\ Len(s) >= 2 /\ IsCont(s[2]) THEN 2
    ELSE IF s[1] >= 224 /\ s[1] <= 239 /\ Len(s) >= 3 /\ IsCont(s[2]) /\ IsCont(s[3]) THEN 3
    ELSE 1

\* []rune(s): the runes of s, each kept as its UTF-8 encoding.
RECURSIVE Runes(_)
Runes(s) ==
    IF s = <<>> THEN <<>>
    ELSE LET w == RuneWidth(s)
             r == IF w = 1 /\ s[1] >= 128 THEN RuneError ELSE SubSeq(s, 1, w)
         IN <<r>> \o Runes(SubSeq(s, w + 1, Len(s)))

\* string(runes)
RECURSIVE Flatten(_)
Flatten(rs) == IF rs = <<>> THEN <<>> ELSE Head(rs) \o Flatten(Tail(rs))

\* Number of characters a terminal draws for s.
DisplayLen(s) == Len(Runes(s))

\* WriteRune(rune(b)) for a byte b: the UTF-8 encoding of U+0000..U+00FF.
EncodeByteAsRune(b) == IF b < 128 THEN <<b>> ELSE <<192 + (b \div 64), 128 + (b % 64)>>

\* strings.Split(s, "_")
RECURSIVE Split(_)
Split(s) ==
    IF \A i \in 1..Len(s) : s[i] # Underscore THEN <<s>>
    ELSE LET k == CHOOSE i \in 1..Len(s) :
                      s[i] = Underscore /\ \A j \in 1..(i - 1) : s[j] # Underscore
         IN <<SubSeq(s, 1, k - 1)>> \o Split(SubSeq(s, k + 1, Len(s)))

\* Go's < on strings: lexicographic on bytes.
StrLess(a, b) ==
    \E i \in 1..(Min(Len(a), Len(b)) + 1) :
        /\ \A j \in 1..(i - 1) : a[j] = b[j]
        /\ \/ i > Len(a) /\ i <= Len(b)
           \/ i <= Len(a) /\ i <= Len(b) /\ a[i] < b[i]

(***************************************************************************)
(* smartTruncateID                                                         *)
(***************************************************************************)
\* The loop over parts (lines 482-501): abbrev after the first k parts.
RECURSIVE Abbrev(_, _, _)
Abbrev(parts, k, maxLen) ==
    IF k = 0 THEN <<>>
    ELSE LET sofar == Abbrev(parts, k - 1, maxLen)
             part == parts[k]
         IN IF k = Len(parts)
            THEN LET remaining == maxLen - Len(sofar)
                 IN IF remaining > 0
                    THEN IF Len(part) <= remaining
                         THEN sofar \o part
                         ELSE sofar \o SubSeq(part, 1, remaining - 1) \o Ellipsis
                    ELSE sofar
            ELSE IF Len(part) > 0
                 THEN sofar \o EncodeByteAsRune(part[1]) \o <<Underscore>>
                 ELSE sofar

\* Lines 508-513, keeping maxLen runes before the ellipsis.
SimpleTruncateKeepsMaxLen(id, maxLen) ==
    LET runes == Runes(id)
    IN IF Len(runes) > maxLen - 1
       THEN Flatten(SubSeq(runes, 1, maxLen)) \o Ellipsis
       ELSE id

SimpleTruncate(id, maxLen) ==
    LET runes == Runes(id)
    IN IF Len(runes) > maxLen - 1
       THEN Flatten(SubSeq(runes, 1, maxLen - 1)) \o Ellipsis
       ELSE id

smartTruncateID(id, maxLen) ==
    IF Len(id) <= maxLen THEN id
    ELSE LET parts == Split(id)
             result == Abbrev(parts, Len(parts), maxLen)
         IN IF Len(parts) > 2 /\ Len(result) <= maxLen
            THEN result
            ELSE SimpleTruncate(id, maxLen)

(***************************************************************************)
(* GraphModel: rebuildGraph                                                *)
(***************************************************************************)
\* *analysis.Insights and its Stats: a pointer that may be nil.
NoScores == [id \in {} |-> 0]
NilStats == [isNil |-> TRUE, CriticalPathScore |-> NoScores]
NilInsights == [isNil |-> TRUE, Stats |-> NilStats]
StatsOf(scores) == [isNil |-> FALSE, CriticalPathScore |-> scores]
InsightsOf(stats) == [isNil |-> FALSE, Stats |-> stats]
DepBlocks == "blocks"
DepParentChild == "parent-child"
DepRelated == "related"
DepTypes == {DepBlocks, DepParentChild, DepRelated}

\* Reading a Go map: the zero value for a key that is absent.
Get(m, k, zero) == IF k \in DOMAIN m THEN m[k] ELSE zero

\* m[k] = append(m[k], v)
MapAppend(m, k, v) ==
    IF k \in DOMAIN m THEN [m EXCEPT ![k] = Append(@, v)] ELSE m @@ (k :> <<v>>)

EmptyMap == [k \in {} |-> <<>>]

\* Lines 57-61: issueMap[issue.ID] = &issues[i]; a later issue overwrites.
BuildIssueMap(is) ==
    [id \in {is[i].ID : i \in 1..Len(is)} |->
        CHOOSE i \in 1..Len(is) :
            is[i].ID = id /\ \A j \in (i + 1)..Len(is) : is[j].ID # id]

\* Lines 57-61: sortedIDs before sorting, the IDs in input order.
CollectIDs(is) == [i \in 1..Len(is) |-> is[i].ID]

\* Line 66: the kinds of edge the graph is built from.
IsGraphEdgeOnlyBlocks(dep) == dep.Type = DepBlocks

IsGraphEdge(dep) == dep.Type = DepBlocks \/ dep.Type = DepParentChild

\* Lines 65-72: the inner loop, over the first n dependencies of one issue.
RECURSIVE AddDependencies(_, _, _)
AddDependencies(rel, issue, n) ==
    IF n = 0 THEN rel
    ELSE LET r == AddDependencies(rel, issue, n - 1)
             dep == issue.Dependencies[n]
         IN IF IsGraphEdge(dep)
            THEN [blockers |-> MapAppend(r.blockers, issue.ID, dep.DependsOnID),
                  dependents |-> MapAppend(r.dependents, dep.DependsOnID, issue.ID)]
            ELSE r

\* Lines 64-73: the outer loop, over the first n issues.
RECURSIVE BuildRelationships(_, _, _)
BuildRelationships(rel, is, n) ==
    IF n = 0 THEN rel
    ELSE AddDependencies(BuildRelationships(rel, is, n - 1), is[n],
                         Len(is[n].Dependencies))

HasStats(ins) == ~ins.isNil /\ ~ins.Stats.isNil

\* g.insights.Stats.CriticalPathScore[id]
CriticalPathScore(ins, id) == Get(ins.Stats.CriticalPathScore, id, 0)

\* Lines 77-84: the less function given to sort.Slice, without the tie-break.
ScoreLessNoTie(ins, a, b) == CriticalPathScore(ins, a) > CriticalPathScore(ins, b)

\* Lines 77-84: the less function given to sort.Slice.
ScoreLess(ins, a, b) ==
    LET scoreI == CriticalPathScore(ins, a)
        scoreJ == CriticalPathScore(ins, b)
    IN IF scoreI # scoreJ THEN scoreI > scoreJ ELSE StrLess(a, b)

\* Lines 76-87: the order the IDs are sorted by.
SortLess(ins, a, b) == IF HasStats(ins) THEN ScoreLess(ins, a, b) ELSE StrLess(a, b)

\* sort.Slice / sort.Strings on a short slice: insertion sort. x moves left
\* while less(x, its left neighbour).
RECURSIVE InsertSorted(_, _, _)
InsertSorted(ins, s, x) ==
    IF s = <<>> \/ ~SortLess(ins, x, s[Len(s)]) THEN Append(s, x)
    ELSE Append(InsertSorted(ins, SubSeq(s, 1, Len(s) - 1), x), s[Len(s)])

RECURSIVE SortIDs(_, _)
SortIDs(ins, ids) ==
    IF ids = <<>> THEN <<>>
    ELSE InsertSorted(ins, SortIDs(ins, SubSeq(ids, 1, Len(ids) - 1)), ids[Len(ids)])

\* Lines 89-91, with > for >=.
ClampSelectionOffByOne(sel, n) == IF sel > n THEN 0 ELSE sel

\* Lines 89-91
ClampSelection(sel, n) == IF sel >= n THEN 0 ELSE sel

\* Lines 51-92, without lines 53-54: the maps of the collection before are
\* appended to.
rebuildGraphKeepMaps(g) ==
    LET rel == BuildRelationships([blockers |-> g.blockers, dependents |-> g.dependents],
                                  g.issues, Len(g.issues))
        sorted == SortIDs(g.insights, CollectIDs(g.issues))
    IN [issueMap |-> BuildIssueMap(g.issues),
        blockers |-> rel.blockers,
        dependents |-> rel.dependents,
        sortedIDs |-> sorted,
        selectedIdx |-> ClampSelection(g.selectedIdx, Len(sorted))]

\* Lines 51-92. g: the fields rebuildGraph reads; the result: those it writes.
rebuildGraph(g) ==
    LET rel == BuildRelationships([blockers |-> EmptyMap, dependents |-> EmptyMap],
                                  g.issues, Len(g.issues))
        sorted == SortIDs(g.insights, CollectIDs(g.issues))
    IN [issueMap |-> BuildIssueMap(g.issues),
        blockers |-> rel.blockers,
        dependents |-> rel.dependents,
        sortedIDs |-> sorted,
        selectedIdx |-> ClampSelection(g.selectedIdx, Len(sorted))]

(***************************************************************************)
(* GraphModel: construction and data replacement                           *)
(***************************************************************************)
NoView == [kind |-> "none", err |-> "", first |-> 0, rows |-> <<>>,
           blockedBy |-> 0, blocks |-> 0]
IndexOutOfRange == "index out of range"
NegativeRepeat == "strings: negative Repeat count"

Running == viewResult.kind # "panic"

\* Lines 34-42. The zero value of every field not set, then rebuildGraph.
NewGraphModel(newIssues, newInsights) ==
    LET r == rebuildGraph([issues |-> newIssues, insights |-> newInsights,
                           selectedIdx |-> 0, blockers |-> EmptyMap,
                           dependents |-> EmptyMap])
    IN /\ issues = newIssues
       /\ insights = newInsights
       /\ issueMap = r.issueMap
       /\ blockers = r.blockers
       /\ dependents = r.dependents
       /\ sortedIDs = r.sortedIDs
       /\ selectedIdx = r.selectedIdx
       /\ scrollOffset = 0
       /\ width = 0
       /\ height = 0
       /\ lastCall = [name |-> "NewGraphModel", from |-> 0]
       /\ viewResult = NoView

\* Lines 45-49. The value View returned is gone once another method runs.
SetIssues(newIssues, newInsights) ==
    \E r \in {rebuildGraph([issues |-> newIssues, insights |-> newInsights,
                            selectedIdx |-> selectedIdx, blockers |-> blockers,
                            dependents |-> dependents])} :
       /\ Running
       /\ issues' = newIssues
       /\ insights' = newInsights
       /\ issueMap' = r.issueMap
       /\ blockers' = r.blockers
       /\ dependents' = r.dependents
       /\ sortedIDs' = r.sortedIDs
       /\ selectedIdx' = r.selectedIdx
       /\ lastCall' = [name |-> "SetIssues", from |-> selectedIdx]
       /\ viewResult' = NoView
       /\ UNCHANGED <<scrollOffset, width, height, truncVars, rowVars>>

(***************************************************************************)
(* GraphModel: navigation                                                  *)
(***************************************************************************)
\* Lines 113, 121: the page step.
PageSize == 10

\* Lines 131-133: ensureVisible does nothing.
NavFrame == UNCHANGED <<issues, insights, scrollOffset, width, height, issueMap,
                        blockers, dependents, sortedIDs, truncVars, rowVars>>

\* Lines 95-100, decrementing at index 0 too.
MoveUpIdxNoGuard(sel) == sel - 1

\* Lines 95-100
MoveUpIdx(sel) == IF sel > 0 THEN sel - 1 ELSE sel

\* Lines 102-107
MoveDownIdx(sel, n) == IF sel < n - 1 THEN sel + 1 ELSE sel

\* Lines 112-118
PageUpIdx(sel) == IF sel - PageSize < 0 THEN 0 ELSE sel - PageSize

\* Lines 120-126
PageDownIdx(sel, n) == IF sel + PageSize >= n THEN n - 1 ELSE sel + PageSize

Navigate(name, idx) ==
    /\ Running
    /\ selectedIdx' = idx
    /\ lastCall' = [name |-> name, from |-> selectedIdx]
    /\ viewResult' = NoView
    /\ NavFrame

MoveUp == Navigate("MoveUp", MoveUpIdx(selectedIdx))
MoveDown == Navigate("MoveDown", MoveDownIdx(selectedIdx, Len(sortedIDs)))
\* Lines 109-110
MoveLeft == Navigate("MoveLeft", MoveUpIdx(selectedIdx))
MoveRight == Navigate("MoveRight", MoveDownIdx(selectedIdx, Len(sortedIDs)))
PageUp == Navigate("PageUp", PageUpIdx(selectedIdx))
PageDown == Navigate("PageDown", PageDownIdx(selectedIdx, Len(sortedIDs)))

\* Lines 135-141: nil, the issue issueMap points to (by its index in issues),
\* or a panic when sortedIDs is indexed out of range.
SelectedIssue ==
    IF Len(sortedIDs) = 0 THEN [kind |-> "nil", index |-> 0]
    ELSE IF selectedIdx < 0 \/ selectedIdx >= Len(sortedIDs)
    THEN [kind |-> "panic", index |-> 0]
    ELSE IF sortedIDs[selectedIdx + 1] \in DOMAIN issueMap
    THEN [kind |-> "issue", index |-> issueMap[sortedIDs[selectedIdx + 1]]]
    ELSE [kind |-> "nil", index |-> 0]

\* Lines 143-145
TotalCount == Len(sortedIDs)

(***************************************************************************)
(* GraphModel: View                                                        *)
(***************************************************************************)
\* Lines 173, 170, 169, 171: the layout thresholds and the list pane's widths.
NarrowWidth == 80
MediumWidth == 100
ListWidthWide == 32
ListWidthNarrow == 24
\* Lines 314, 331: related nodes listed per section.
RelatedLimit == 8

\* Lines 207-210
VisibleItems(paneHeight) == IF paneHeight - 4 < 1 THEN 1 ELSE paneHeight - 4

\* Lines 212-218, never moving the window.
StartIdxKeep(offset, sel, visibleItems) == offset

\* Lines 212-218
StartIdx(offset, sel, visibleItems) ==
    IF sel < offset THEN sel
    ELSE IF sel >= offset + visibleItems THEN sel - visibleItems + 1
    ELSE offset

\* Lines 195-272: the offset stored, the rows drawn (the truncated IDs of
\* sortedIDs[first..last-1]) and whether indexing sortedIDs panicked.
renderNodeList(paneWidth, paneHeight) ==
    LET visibleItems == VisibleItems(paneHeight)
        startIdx == StartIdx(scrollOffset, selectedIdx, visibleItems)
        endIdx == Min(startIdx + visibleItems, Len(sortedIDs))
        drawn == {i \in startIdx..(endIdx - 1) :
                     i >= 0 /\ sortedIDs[i + 1] \in DOMAIN issueMap}
    IN [scrollOffset |-> startIdx,
        first |-> startIdx,
        panic |-> startIdx < 0 /\ startIdx < endIdx,
        rows |-> [k \in 1..Cardinality(drawn) |->
                     smartTruncateID(sortedIDs[startIdx + k], paneWidth - 4)]]

\* Lines 302-342: the two counts of the stats line and the lines listed.
renderNeighborhood(id) ==
    LET blockerCount == Len(Get(blockers, id, <<>>))
        dependentCount == Len(Get(dependents, id, <<>>))
    IN [blockedBy |-> blockerCount,
        blocks |-> dependentCount,
        listed |-> Min(blockerCount, RelatedLimit) + Min(dependentCount, RelatedLimit)]

\* Lines 148-192. strings.Repeat panics on a negative count.
View(w, h) ==
    /\ Running
    /\ width' = w
    /\ height' = h
    /\ lastCall' = [name |-> "View", from |-> selectedIdx]
    /\ UNCHANGED <<issues, insights, selectedIdx, issueMap, blockers, dependents,
                   sortedIDs, truncVars, rowVars>>
    /\ IF Len(sortedIDs) = 0
       THEN /\ viewResult' = [NoView EXCEPT !.kind = "placeholder"]
            /\ UNCHANGED scrollOffset
       ELSE IF selectedIdx < 0 \/ selectedIdx >= Len(sortedIDs)
       THEN /\ viewResult' = [NoView EXCEPT !.kind = "panic", !.err = IndexOutOfRange]
            /\ UNCHANGED scrollOffset
       ELSE IF sortedIDs[selectedIdx + 1] \notin DOMAIN issueMap
       THEN /\ viewResult' = [NoView EXCEPT !.kind = "error"]
            /\ UNCHANGED scrollOffset
       ELSE \E nb \in {renderNeighborhood(sortedIDs[selectedIdx + 1])} :
            IF w < NarrowWidth
            THEN /\ viewResult' = [NoView EXCEPT !.kind = "neighborhood",
                                     !.blockedBy = nb.blockedBy, !.blocks = nb.blocks]
                 /\ UNCHANGED scrollOffset
            ELSE \E nl \in {renderNodeList(IF w < MediumWidth THEN ListWidthNarrow
                                           ELSE ListWidthWide, h - 2)} :
                 /\ scrollOffset' = nl.scrollOffset
                 /\ viewResult' =
                      [kind |-> IF nl.panic \/ h - 2 < 0 THEN "panic" ELSE "split",
                       err |-> IF nl.panic THEN IndexOutOfRange
                               ELSE IF h - 2 < 0 THEN NegativeRepeat ELSE "",
                       first |-> nl.first, rows |-> nl.rows,
                       blockedBy |-> nb.blockedBy, blocks |-> nb.blocks]

(***************************************************************************)
(* The graph view driven by its host: collections of up to MaxCount        *)
(* issues "a", "b", ... in either input order, each blocked by the one     *)
(* before it; viewports around the layout thresholds.                      *)
(***************************************************************************)
MaxCount == 12
MaxHeight == 9

NavID(k) == <<96 + k>>

NavIssue(k) ==
    [ID |-> NavID(k),
     Dependencies |-> IF k > 1 THEN <<[DependsOnID |-> NavID(k - 1), Type |-> DepBlocks]>>
                      ELSE <<>>]

NavSizes == {0, 1, 2, MaxCount - 1, MaxCount}

NavCollections ==
    {[k \in 1..n |-> NavIssue(k)] : n \in NavSizes}
        \cup {[k \in 1..MaxCount |-> NavIssue(MaxCount + 1 - k)]}

Widths == {NarrowWidth - 1, NarrowWidth, MediumWidth}
Heights == {1, 7, MaxHeight}

NotCalled == [called |-> FALSE, value |-> <<>>]
TruncIdle == truncId = <<>> /\ truncMaxLen = 0 /\ truncOut = NotCalled
NoItem == [isIssue |-> FALSE, hasAssignee |-> FALSE, comments |-> 0, impact |-> 0]
RowIdle == rowTier = 0 /\ rowWidth = 0 /\ rowItem = NoItem /\ rowOut = <<>>

Init ==
    /\ \E c \in NavCollections : NewGraphModel(c, NilInsights)
    /\ TruncIdle
    /\ RowIdle

Next ==
    \/ \E c \in NavCollections : SetIssues(c, NilInsights)
    \/ MoveUp
    \/ MoveDown
    \/ MoveLeft
    \/ MoveRight
    \/ PageUp
    \/ PageDown
    \/ \E w \in Widths, h \in Heights : View(w, h)

Spec == Init /\ [][Next]_vars

(***************************************************************************)
(* Claims about the graph view (checked under Spec)                        *)
(***************************************************************************)
Count == Len(sortedIDs)
NavNames == {"MoveUp", "MoveDown", "MoveLeft", "MoveRight", "PageUp", "PageDown"}

\* C1: whenever the collection is non-empty, 0 <= selectedIdx <= count-1,
\* in every state any sequence of calls reaches.
C1_SelectionInRange ==
    Count > 0 => (0 <= selectedIdx /\ selectedIdx <= Count - 1)

\* C4: from a non-empty collection with a valid index i, MoveUp/MoveLeft set
\* the index to max(0, i-1), MoveDown/MoveRight to min(count-1, i+1), PageUp
\* to max(0, i-10), PageDown to min(count-1, i+10), and none of them changes
\* sortedIDs or the adjacency index.
C4_Step ==
    LET i == selectedIdx
        op == lastCall'.name
    IN (Count > 0 /\ 0 <= i /\ i <= Count - 1) =>
          /\ op \in {"MoveUp", "MoveLeft"} => selectedIdx' = Max(0, i - 1)
          /\ op \in {"MoveDown", "MoveRight"} => selectedIdx' = Min(Count - 1, i + 1)
          /\ op = "PageUp" => selectedIdx' = Max(0, i - 10)
          /\ op = "PageDown" => selectedIdx' = Min(Count - 1, i + 10)
          /\ op \in NavNames => UNCHANGED <<sortedIDs, blockers, dependents>>

C4_Navigation == [][C4_Step]_vars

\* A PageDown that moved a full page, from the first row.
C4_Witness ==
    /\ lastCall = [name |-> "PageDown", from |-> 0]
    /\ selectedIdx = 10
    /\ blockers # EmptyMap

\* C5: after SetIssues replaced the collection by one whose size is at most
\* the previous selection index, the index is within [0, count-1] if the new
\* collection is non-empty; if it is empty SelectedIssue returns nil and
\* TotalCount is 0.
C5_ClampOnShrink ==
    (lastCall.name = "SetIssues" /\ Len(issues) <= lastCall.from) =>
        IF Len(issues) > 0
        THEN 0 <= selectedIdx /\ selectedIdx <= Count - 1
        ELSE SelectedIssue.kind = "nil" /\ TotalCount = 0

\* SetIssues shrank a collection to a non-empty one no larger than the index.
C5_Witness ==
    /\ lastCall.name = "SetIssues"
    /\ Len(issues) > 0
    /\ lastCall.from >= Len(issues)

\* C7: View returns text, without failing, for every reachable state with a
\* non-empty collection and every width >= 0 and height >= 0.
C7_ViewTotal ==
    (lastCall.name = "View" /\ Count > 0) => viewResult.kind # "panic"

\* C9: once View has rendered the node-list pane, the stored scroll offset
\* satisfies scrollOffset <= selectedIdx < scrollOffset + visibleItems with
\* visibleItems = max(1, paneHeight - 4), paneHeight = height - 2, and the
\* selected row is among the rows drawn; the offset is raised only when the
\* selection was below the window and lowered only when it was above it.
PaneRendered ==
    /\ lastCall.name = "View"
    /\ \/ viewResult.kind = "split"
       \/ viewResult.kind = "panic" /\ viewResult.err = NegativeRepeat

C9_Visible ==
    PaneRendered =>
        /\ width >= 80
        /\ scrollOffset <= selectedIdx
        /\ selectedIdx < scrollOffset + Max(1, (height - 2) - 4)
        /\ viewResult.first <= selectedIdx
        /\ selectedIdx < viewResult.first + Len(viewResult.rows)

C9_Step ==
    /\ scrollOffset' > scrollOffset =>
           selectedIdx >= scrollOffset + Max(1, (height' - 2) - 4)
    /\ scrollOffset' < scrollOffset => selectedIdx < scrollOffset

C9_ScrollFollowsSelection == [](C9_Visible) /\ [][C9_Step]_vars

\* The pane drawn with several rows, scrolled down to keep the selection in.
C9_Witness ==
    /\ lastCall.name = "View"
    /\ viewResult.kind = "split"
    /\ scrollOffset > 0
    /\ Len(viewResult.rows) > 1
    /\ selectedIdx = scrollOffset + Len(viewResult.rows) - 1

(***************************************************************************)
(* The host reloading its issues: it edits the collection it holds (adds   *)
(* or removes an issue or a dependency, changes the insights) and hands    *)
(* the result to SetIssues.                                                *)
(***************************************************************************)
MaxEdges == 3
MaxSorted == 3
MaxScore == 2

\* "a", "b"
EdgeIDs == {<<97>>, <<98>>}
\* "a", "ab", "b", "ba"
SortUniverse == {<<97>>, <<97, 98>>, <<98>>, <<98, 97>>}

IdsOf(is) == {is[i].ID : i \in 1..Len(is)}
InsertAt(s, p, x) == SubSeq(s, 1, p - 1) \o <<x>> \o SubSeq(s, p, Len(s))
RemoveAt(s, p) == SubSeq(s, 1, p - 1) \o SubSeq(s, p + 1, Len(s))

RECURSIVE TotalDeps(_)
TotalDeps(is) ==
    IF is = <<>> THEN 0 ELSE Len(Head(is).Dependencies) + TotalDeps(Tail(is))

HostAddsIssue(ids, maxIssues) ==
    /\ Len(issues) < maxIssues
    /\ \E id \in ids \ IdsOf(issues), p \in 1..(Len(issues) + 1) :
           SetIssues(InsertAt(issues, p, [ID |-> id, Dependencies |-> <<>>]), insights)

HostRemovesIssue ==
    \E p \in 1..Len(issues) : SetIssues(RemoveAt(issues, p), insights)

HostAddsDependency ==
    /\ TotalDeps(issues) < MaxEdges
    /\ \E p \in 1..Len(issues), target \in EdgeIDs, type \in DepTypes :
           SetIssues([issues EXCEPT ![p].Dependencies =
                            Append(@, [DependsOnID |-> target, Type |-> type])],
                     insights)

HostRemovesDependency ==
    \E p \in 1..Len(issues) :
        /\ issues[p].Dependencies # <<>>
        /\ SetIssues([issues EXCEPT ![p].Dependencies = SubSeq(@, 1, Len(@) - 1)],
                     insights)

\* The same collection and insights handed over again.
HostReloads == SetIssues(issues, insights)

EdgeInit ==
    /\ NewGraphModel(<<>>, NilInsights)
    /\ TruncIdle
    /\ RowIdle

EdgeNext ==
    \/ HostAddsIssue(EdgeIDs, Cardinality(EdgeIDs))
    \/ HostRemovesIssue
    \/ HostAddsDependency
    \/ HostRemovesDependency
    \/ HostReloads

EdgeSpec == EdgeInit /\ [][EdgeNext]_vars

HostSetsInsights ==
    \E ins \in {NilInsights, InsightsOf(NilStats), InsightsOf(StatsOf(NoScores))} :
        SetIssues(issues, ins)

HostSetsScore ==
    /\ HasStats(insights)
    /\ \E id \in SortUniverse, score \in 1..MaxScore :
           SetIssues(issues, InsightsOf(StatsOf(
                         [k \in DOMAIN insights.Stats.CriticalPathScore \cup {id} |->
                             IF k = id THEN score
                             ELSE insights.Stats.CriticalPathScore[k]])))

HostDropsScore ==
    /\ HasStats(insights)
    /\ \E id \in DOMAIN insights.Stats.CriticalPathScore :
           SetIssues(issues, InsightsOf(StatsOf(
                         [k \in DOMAIN insights.Stats.CriticalPathScore \ {id} |->
                             insights.Stats.CriticalPathScore[k]])))

SortInit ==
    /\ \E ins \in {NilInsights, InsightsOf(StatsOf(NoScores))} :
           NewGraphModel(<<>>, ins)
    /\ TruncIdle
    /\ RowIdle

SortNext ==
    \/ HostAddsIssue(SortUniverse, MaxSorted)
    \/ HostRemovesIssue
    \/ HostSetsInsights
    \/ HostSetsScore
    \/ HostDropsScore
    \/ HostReloads

SortSpec == SortInit /\ [][SortNext]_vars

(***************************************************************************)
(* Claims about rebuildGraph                                               *)
(***************************************************************************)
\* Number of times x occurs in the sequence s.
Occ(s, x) == Cardinality({i \in 1..Len(s) : s[i] = x})

\* Number of blocks/parent-child dependencies of A on B in the collection.
NumDeps(A, B) ==
    Cardinality({ij \in (1..Len(issues)) \X (1..MaxEdges + 1) :
        /\ issues[ij[1]].ID = A
        /\ ij[2] <= Len(issues[ij[1]].Dependencies)
        /\ issues[ij[1]].Dependencies[ij[2]].DependsOnID = B
        /\ issues[ij[1]].Dependencies[ij[2]].Type \in {"blocks", "parent-child"}})

\* C2 (checked under EdgeSpec): after any rebuild, for all IDs A and B, B
\* occurs in blockers[A] exactly as many times as A occurs in dependents[B],
\* and that number is the number of blocks/parent-child dependencies of A on
\* B in the current collection; other kinds of edge and earlier collections
\* contribute nothing.
C2_AdjacencyExact ==
    /\ DOMAIN blockers \subseteq EdgeIDs
    /\ DOMAIN dependents \subseteq EdgeIDs
    /\ \A A \in EdgeIDs : \A B \in EdgeIDs :
           /\ Occ(Get(blockers, A, <<>>), B) = Occ(Get(dependents, B, <<>>), A)
           /\ Occ(Get(blockers, A, <<>>), B) = NumDeps(A, B)

\* "a", alone in the collection, has three dependencies: two of them, on the
\* absent "b", are counted, the third is of a kind that is not.
C2_Witness ==
    /\ lastCall.name = "SetIssues"
    /\ Len(issues) = 1
    /\ issues[1].ID = <<97>>
    /\ Len(issues[1].Dependencies) = 3
    /\ blockers = (<<97>> :> <<(<<98>>), (<<98>>)>>)
    /\ dependents = (<<98>> :> <<(<<97>>), (<<97>>)>>)

\* The score the order goes by: 0 for an ID without a score, and when there
\* are no stats.
ClaimScore(id) ==
    IF insights.isNil THEN 0
    ELSE IF insights.Stats.isNil THEN 0
    ELSE Get(insights.Stats.CriticalPathScore, id, 0)

C3_Ordered ==
    /\ Len(sortedIDs) = Len(issues)
    /\ \A id \in SortUniverse : Occ(sortedIDs, id) = Occ(CollectIDs(issues), id)
    /\ \A i \in 1..Len(sortedIDs) : \A j \in (i + 1)..Len(sortedIDs) :
           \/ ClaimScore(sortedIDs[i]) > ClaimScore(sortedIDs[j])
           \/ /\ ClaimScore(sortedIDs[i]) = ClaimScore(sortedIDs[j])
              /\ StrLess(sortedIDs[i], sortedIDs[j])

C3_Step == (issues' = issues /\ insights' = insights) => sortedIDs' = sortedIDs

\* C3 (checked under SortSpec): after any rebuild sortedIDs is a permutation
\* of the collection's IDs, ordered by descending critical-path score with
\* ties broken by ascending ID when insights are present and by ascending ID
\* otherwise, whatever the input order; rebuilding from an unchanged
\* collection and insights yields the same sequence.
C3_SortedOrder == [](C3_Ordered) /\ [][C3_Step]_vars

\* Three issues, given in an order that is not the sorted one: two tie on
\* the score, and a higher score puts a lexically later ID first.
C3_Witness ==
    /\ HasStats(insights)
    /\ Len(sortedIDs) = 3
    /\ CollectIDs(issues) # sortedIDs
    /\ ClaimScore(sortedIDs[1]) > ClaimScore(sortedIDs[2])
    /\ StrLess(sortedIDs[2], sortedIDs[1])
    /\ ClaimScore(sortedIDs[2]) = ClaimScore(sortedIDs[3])
    /\ StrLess(sortedIDs[3], CollectIDs(issues)[1])

(***************************************************************************)
(* smartTruncateID called on every id of up to MaxIdChars characters out   *)
(* of "a", "_" and the two-byte U+00E9, and on the spec's example.         *)
(***************************************************************************)
MaxIdChars == 7
MaxTruncLen == 7

TruncChars == {<<97>>, <<Underscore>>, EAcute}

RECURSIVE IdsOfLength(_)
IdsOfLength(n) ==
    IF n = 0 THEN {<<>>}
    ELSE {id \o c : id \in IdsOfLength(n - 1), c \in TruncChars}

TruncIds == UNION {IdsOfLength(n) : n \in 0..MaxIdChars}

\* "proj_feature_auth_login"
ExampleID == <<112, 114, 111, 106, 95, 102, 101, 97, 116, 117, 114, 101, 95,
               97, 117, 116, 104, 95, 108, 111, 103, 105, 110>>

TruncInit ==
    /\ NewGraphModel(<<>>, NilInsights)
    /\ RowIdle
    /\ \/ truncId \in TruncIds /\ truncMaxLen \in 1..MaxTruncLen
       \/ truncId = ExampleID /\ truncMaxLen = 10
    /\ truncOut = NotCalled

CallSmartTruncateID ==
    /\ ~truncOut.called
    /\ truncOut' = [called |-> TRUE, value |-> smartTruncateID(truncId, truncMaxLen)]
    /\ UNCHANGED <<graphVars, truncId, truncMaxLen, rowVars>>

TruncNext == CallSmartTruncateID

TruncSpec == TruncInit /\ [][TruncNext]_vars

\* C6 (checked under TruncSpec): for every id and every n >= 1 the result
\* has display length (characters, the ellipsis counting one) at most n, and
\* is id itself whenever len(id) <= n, the empty id included.
C6_TruncateBound ==
    truncOut.called =>
        /\ DisplayLen(truncOut.value) <= truncMaxLen
        /\ Len(truncId) <= truncMaxLen => truncOut.value = truncId

\* An id cut to exactly n characters.
C6_Witness ==
    /\ truncOut.called
    /\ truncOut.value # truncId
    /\ DisplayLen(truncOut.value) = truncMaxLen
    /\ truncMaxLen > 1

IsAscii(str) == \A i \in 1..Len(str) : str[i] < 128

\* The abbreviation as the claim words it, on an ASCII id whose segments but
\* the last are non-empty: the first character of every segment except the
\* last, each followed by "_", then as much of the last segment as fits the
\* remaining budget, ending in the ellipsis when the last segment is cut.
RECURSIVE ClaimInitials(_, _)
ClaimInitials(segs, k) ==
    IF k = 0 THEN <<>>
    ELSE ClaimInitials(segs, k - 1) \o <<segs[k][1], Underscore>>

ClaimAbbreviation(id, maxLen) ==
    LET segs == Split(id)
        initials == ClaimInitials(segs, Len(segs) - 1)
        last == segs[Len(segs)]
        budget == maxLen - Len(initials)
    IN IF budget <= 0 THEN initials
       ELSE IF Len(last) <= budget THEN initials \o last
       ELSE initials \o SubSeq(last, 1, budget - 1) \o Ellipsis

\* C10 (checked under TruncSpec): for an id longer than maxLen with more
\* than 2 underscore-separated segments the result is the abbreviation
\* whenever the abbreviation is at most maxLen characters long, and the plain
\* truncation (first maxLen-1 characters and the ellipsis) only when it is not.
C10_AbbreviationReturned ==
    LET segs == Split(truncId)
        abbreviation == ClaimAbbreviation(truncId, truncMaxLen)
    IN (/\ truncOut.called
        /\ IsAscii(truncId)
        /\ Len(truncId) > truncMaxLen
        /\ Len(segs) > 2
        /\ \A k \in 1..(Len(segs) - 1) : segs[k] # <<>>) =>
           truncOut.value =
               IF DisplayLen(abbreviation) <= truncMaxLen THEN abbreviation
               ELSE SubSeq(truncId, 1, truncMaxLen - 1) \o Ellipsis

(***************************************************************************)
(* IssueDelegate.Render                                                    *)
(***************************************************************************)
TierCompact == 0
TierNormal == 1
TierWide == 2
TierUltraWide == 3
Tiers == {TierCompact, TierNormal, TierWide, TierUltraWide}

\* Lines 58, 62, 65, 69: the widths of the ID, type, priority, status columns.
IDWidth == 8
TypeWidth == 2
PrioWidth == 3
StatusWidth == 12
\* Lines 87, 102, 126: what each tier adds to extraWidth.
AssigneeExtra == 12
AgeCommentsExtra == 12
UpdatedExtra == 18
\* Line 130: gaps before the tiers' additions; line 136: the margin.
BaseGaps == 4
RowMargin == 4
\* Line 137
MinTitleWidth == 10

\* Lines 77-127
ExtraWidth(tier) ==
    (IF tier >= TierNormal THEN AssigneeExtra ELSE 0)
    + (IF tier >= TierWide THEN AgeCommentsExtra ELSE 0)
    + (IF tier >= TierUltraWide THEN UpdatedExtra ELSE 0)

\* Lines 130-133
Gaps(tier) ==
    BaseGaps + (IF tier >= TierNormal THEN 1 ELSE 0)
    + (IF tier >= TierWide THEN 2 ELSE 0)
    + (IF tier >= TierUltraWide THEN 1 ELSE 0)

\* Lines 135-137
AvailableWidth(tier, w) ==
    LET fixedWidth == IDWidth + TypeWidth + PrioWidth + StatusWidth
                          + ExtraWidth(tier) + Gaps(tier)
        availableWidth == w - fixedWidth - RowMargin
    IN IF availableWidth < MinTitleWidth THEN MinTitleWidth ELSE availableWidth

\* Lines 146-149, with == for >= on the Wide columns.
RowPartsWideOnly(tier) ==
    <<"id", "type", "priority", "status", "title">>
    \o (IF tier = TierWide THEN <<"comments", "age">> ELSE <<>>)
    \o (IF tier >= TierNormal THEN <<"assignee">> ELSE <<>>)
    \o (IF tier >= TierUltraWide THEN <<"updated+impact">> ELSE <<>>)

\* Lines 146-149: the columns joined, in order.
RowParts(tier) ==
    <<"id", "type", "priority", "status", "title">>
    \o (IF tier >= TierWide THEN <<"comments", "age">> ELSE <<>>)
    \o (IF tier >= TierNormal THEN <<"assignee">> ELSE <<>>)
    \o (IF tier >= TierUltraWide THEN <<"updated+impact">> ELSE <<>>)

\* Lines 40-152: what is written to w; nothing for an item that is no IssueItem.
\* blank: the optional columns rendered as padding only.
RenderRow(tier, w, item) ==
    IF ~item.isIssue
    THEN [written |-> FALSE, parts |-> <<>>, titleWidth |-> 0, blank |-> {}]
    ELSE [written |-> TRUE,
          parts |-> RowParts(tier),
          titleWidth |-> AvailableWidth(tier, w),
          blank |-> (IF tier >= TierNormal /\ ~item.hasAssignee THEN {"assignee"} ELSE {})
                    \cup (IF tier >= TierWide /\ item.comments = 0 THEN {"comments"} ELSE {})]

(***************************************************************************)
(* One item drawn by the delegate at one list width, the host switching    *)
(* the delegate's tier between renders.                                    *)
(***************************************************************************)
MaxWidthStep == 20

RowWidths == {5 * k : k \in 0..MaxWidthStep}
RowItems == [isIssue : BOOLEAN, hasAssignee : BOOLEAN, comments : {0, 2}, impact : {0, 7}]

RowInit ==
    /\ NewGraphModel(<<>>, NilInsights)
    /\ TruncIdle
    /\ rowTier \in Tiers
    /\ rowWidth \in RowWidths
    /\ rowItem \in RowItems
    /\ rowOut = <<>>

Render ==
    /\ rowOut' = [t \in DOMAIN rowOut \cup {rowTier} |->
                     IF t = rowTier THEN RenderRow(rowTier, rowWidth, rowItem)
                     ELSE rowOut[t]]
    /\ UNCHANGED <<graphVars, truncVars, rowTier, rowWidth, rowItem>>

SetTier ==
    /\ \E t \in Tiers : rowTier' = t
    /\ UNCHANGED <<graphVars, truncVars, rowWidth, rowItem, rowOut>>

RowNext == Render \/ SetTier

RowSpec == RowInit /\ [][RowNext]_vars

Range(f) == {f[x] : x \in DOMAIN f}

\* C8 (checked under RowSpec): for a fixed issue the columns emitted at tier
\* T are a subset of those emitted at tier T+1 (Compact: ID, type, priority,
\* status, title; Normal adds assignee; Wide adds age and comment count;
\* UltraWide adds updated+impact), and for a fixed viewport width the title
\* width never increases with the tier.
C8_TierMonotone ==
    rowItem.isIssue =>
        /\ \A t \in DOMAIN rowOut : \A u \in DOMAIN rowOut :
               t + 1 = u =>
                   /\ Range(rowOut[t].parts) \subseteq Range(rowOut[u].parts)
                   /\ rowOut[u].titleWidth <= rowOut[t].titleWidth
        /\ \A t \in DOMAIN rowOut :
               Range(rowOut[t].parts) =
                   {"id", "type", "priority", "status", "title"}
                   \cup (IF t >= 1 THEN {"assignee"} ELSE {})
                   \cup (IF t >= 2 THEN {"age", "comments"} ELSE {})
                   \cup (IF t >= 3 THEN {"updated+impact"} ELSE {})

\* An issue rendered at all four tiers, the title narrower at every step.
C8_Witness ==
    /\ rowItem.isIssue
    /\ DOMAIN rowOut = Tiers
    /\ \A t \in 0..2 : rowOut[t + 1].titleWidth < rowOut[t].titleWidth

====
